---- MODULE Spec2Model ----
(***************************************************************************)
(* Memory-hierarchy simulator (src/main.py): CacheBlock, CacheSet,         *)
(* CacheLevel, MemoryHierarchy and the disk row of PerformanceAnalyzer.    *)
(*                                                                         *)
(* time.time() is a wall clock of finite resolution: two consecutive reads *)
(* may return the same value.  A call of access_memory draws the values of *)
(* its reads as a non-decreasing sequence T starting at the last value     *)
(* returned; operations take T and the number n of reads already made and  *)
(* return the number of reads made so far.                                 *)
(***************************************************************************)
EXTENDS Integers, Sequences, FiniteSets

VARIABLES
    levels,      \* MemoryHierarchy.levels: sequence of CacheLevel records
    disk_level,  \* MemoryHierarchy.disk_level
    clock,       \* the last value time.time() returned
    trace,       \* history: one record per access_memory call (address, result)
    probes,      \* history: per level, probes that found an existing CacheSet
    cset,        \* a CacheSet driven directly by access and insert
    op,          \* history: the last call on cset (name, tag, result)
    nops,        \* history: the number of calls on cset
    prev,        \* history: cset.blocks before the last call
    recency,     \* history: the tags cset has held, least recently touched first
    arrival,     \* history: the tags cset has held, least recently admitted first
    generator,   \* an AccessPatternGenerator and the generate_* call it is running
    hierarchy,   \* the outcome of MemoryHierarchy(config) for one configuration
    ref          \* a second run of access_memory on the same addresses

vars == <<levels, disk_level, clock, trace, probes, cset, op, nops, prev, recency, arrival,
          generator, hierarchy, ref>>

\* ------------------------------------------------------------------ bounds

MaxCalls == 3      \* access_memory calls per run
MaxClock == 1      \* clock ticks per run: time.time() returns 0..MaxClock
MaxOps == 4        \* calls on cset per run
MaxCapacity == 2   \* capacities of cset: 1..MaxCapacity
MaxTag == 2        \* tags given to cset: 0..MaxTag
MaxAddress == 200  \* addresses decomposed: 0..MaxAddress
MaxPairCalls == 4  \* access_memory calls of a pair of runs
MaxRequests == 3   \* num_requests given to generate_*: 0..MaxRequests, and Chunks

Stride == 4        \* generate_sequential's default stride
Chunks == 10       \* generate_locality redraws its hotspot every num_requests // 10

Policies == {"LRU", "MRU", "LFU", "FIFO", "Random"}
Addresses == {0, 64, 128}

\* ------------------------------------------------------------------ clock

\* The values of K consecutive reads of time.time(), the last value returned
\* being c: non-decreasing, each read either repeats the value before it or
\* is one tick later.
Timestamps(c, K) ==
    { [r \in 1..K |-> c + Cardinality({p \in P : p <= r})] :
        P \in {Q \in SUBSET (1..K) : Cardinality(Q) <= MaxClock - c} }

\* The clock after n reads of T.
ClockAfter(c, T, n) == IF n = 0 THEN c ELSE T[n]

\* ------------------------------------------------------------------ CacheBlock

CacheBlock(tag, T, n) ==
    [tag |-> tag,
     last_access |-> T[n + 1],
     insertion_time |-> T[n + 2],
     access_count |-> 1]

\* ------------------------------------------------------------------ CacheSet

CacheSetInit(capacity, policy) ==
    [capacity |-> capacity, blocks |-> <<>>, policy |-> policy]

\* Index of the first block holding tag, 0 when there is none.
FindBlock(blocks, tag) ==
    IF \E i \in 1..Len(blocks) : blocks[i].tag = tag
    THEN CHOOSE i \in 1..Len(blocks) :
            /\ blocks[i].tag = tag
            /\ \A j \in 1..(i - 1) : blocks[j].tag # tag
    ELSE 0

\* Variant: a touch also resets the block's insertion_time.
TouchResetsInsertion(block, T, n) ==
    [block EXCEPT !.last_access = T[n + 1], !.insertion_time = T[n + 1],
                  !.access_count = @ + 1]

\* block.last_access = time.time(); block.access_count += 1
Touch(block, T, n) ==
    [block EXCEPT !.last_access = T[n + 1], !.access_count = @ + 1]

CacheSetAccess(s, tag, T, n) ==
    LET i == FindBlock(s.blocks, tag) IN
    IF i # 0
    THEN [set |-> [s EXCEPT !.blocks[i] = Touch(@, T, n)], hit |-> TRUE, n |-> n + 1]
    ELSE [set |-> s, hit |-> FALSE, n |-> n]

LruKey(b) == b.last_access
MruKey(b) == b.last_access
LfuKey(b) == b.access_count

\* Variant: FIFO ordered by the time of the last touch.
FifoKeyLastAccess(b) == b.last_access

FifoKey(b) == b.insertion_time

\* Variant: among equal keys the last block wins.
MinIndexLast(keys) ==
    CHOOSE i \in 1..Len(keys) :
        /\ \A j \in 1..Len(keys) : keys[i] <= keys[j]
        /\ \A j \in (i + 1)..Len(keys) : keys[j] > keys[i]

\* min(blocks, key=...) over the blocks' keys: the first of the smallest key.
MinIndex(keys) ==
    CHOOSE i \in 1..Len(keys) :
        /\ \A j \in 1..Len(keys) : keys[i] <= keys[j]
        /\ \A j \in 1..(i - 1) : keys[j] > keys[i]

\* max(blocks, key=...) over the blocks' keys: the first of the largest key.
MaxIndex(keys) ==
    CHOOSE i \in 1..Len(keys) :
        /\ \A j \in 1..Len(keys) : keys[i] >= keys[j]
        /\ \A j \in 1..(i - 1) : keys[j] < keys[i]

\* Index of the victim among non-empty blocks, 0 when the policy names none;
\* r is the draw of random.choice.
Victim(blocks, policy, r) ==
    CASE policy = "LRU" -> MinIndex([i \in 1..Len(blocks) |-> LruKey(blocks[i])])
      [] policy = "MRU" -> MaxIndex([i \in 1..Len(blocks) |-> MruKey(blocks[i])])
      [] policy = "LFU" -> MinIndex([i \in 1..Len(blocks) |-> LfuKey(blocks[i])])
      [] policy = "FIFO" -> MinIndex([i \in 1..Len(blocks) |-> FifoKey(blocks[i])])
      [] policy = "Random" -> (r % Len(blocks)) + 1
      [] OTHER -> 0

\* blocks.remove(victim)
RemoveAt(blocks, i) ==
    [k \in 1..(Len(blocks) - 1) |-> IF k < i THEN blocks[k] ELSE blocks[k + 1]]

\* Variant: replace selects a victim and leaves it in the set.
CacheSetReplaceKeeps(s, r) == s

CacheSetReplace(s, r) ==
    IF s.blocks = <<>> THEN s
    ELSE LET v == Victim(s.blocks, s.policy, r) IN
         IF v = 0 THEN s ELSE [s EXCEPT !.blocks = RemoveAt(@, v)]

\* Variant: the set counts as full one block too late.
IsFullOffByOne(s) == Len(s.blocks) > s.capacity

\* len(self.blocks) >= self.capacity
IsFull(s) == Len(s.blocks) >= s.capacity

\* Variant: insert without the scan for a resident block of the tag.
CacheSetInsertNoScan(s, tag, T, n, r) ==
    LET s1 == IF IsFull(s) THEN CacheSetReplace(s, r) ELSE s
    IN [set |-> [s1 EXCEPT !.blocks = Append(@, CacheBlock(tag, T, n))], n |-> n + 2]

CacheSetInsert(s, tag, T, n, r) ==
    LET i == FindBlock(s.blocks, tag) IN
    IF i # 0
    THEN [set |-> [s EXCEPT !.blocks[i] = Touch(@, T, n)], n |-> n + 1]
    ELSE LET s1 == IF IsFull(s) THEN CacheSetReplace(s, r) ELSE s
         IN [set |-> [s1 EXCEPT !.blocks = Append(@, CacheBlock(tag, T, n))],
             n |-> n + 2]

\* ------------------------------------------------------------------ CacheLevel

Max(a, b) == IF a >= b THEN a ELSE b

Abs(a) == IF a >= 0 THEN a ELSE 0 - a

\* int(a / b) for b # 0: the quotient, truncated toward zero.
IntDiv(a, b) ==
    IF (a < 0) = (b < 0) THEN Abs(a) \div Abs(b) ELSE 0 - (Abs(a) \div Abs(b))

CacheLevelInit(name, size_bytes, block_size, associativity, access_time, policy) ==
    [name |-> name,
     size |-> size_bytes,
     block_size |-> block_size,
     associativity |-> IF associativity = 0
                       THEN IntDiv(size_bytes, block_size)
                       ELSE associativity,
     access_time |-> access_time,
     policy |-> policy,
     num_sets |-> IF associativity = 0
                  THEN 1
                  ELSE Max(1, IntDiv(size_bytes, block_size * associativity)),
     sets |-> <<>>,
     hits |-> 0,
     misses |-> 0]

\* Variant: the tag is taken modulo num_sets, like the index.
GetIndexAndTagModulo(lv, address) ==
    [index |-> (address \div lv.block_size) % lv.num_sets,
     tag |-> (address \div lv.block_size) % lv.num_sets]

GetIndexAndTag(lv, address) ==
    [index |-> (address \div lv.block_size) % lv.num_sets,
     tag |-> (address \div lv.block_size) \div lv.num_sets]

\* Variant: a probe of an index without a CacheSet is counted as a miss.
CacheLevelAccessCountsAbsent(lv, address, T, n) ==
    LET it == GetIndexAndTag(lv, address) IN
    IF it.index \notin DOMAIN lv.sets
    THEN [level |-> [lv EXCEPT !.misses = @ + 1], hit |-> FALSE, n |-> n]
    ELSE LET a == CacheSetAccess(lv.sets[it.index], it.tag, T, n) IN
         IF a.hit
         THEN [level |-> [lv EXCEPT !.sets[it.index] = a.set, !.hits = @ + 1],
               hit |-> TRUE, n |-> a.n]
         ELSE [level |-> [lv EXCEPT !.misses = @ + 1], hit |-> FALSE, n |-> a.n]

CacheLevelAccess(lv, address, T, n) ==
    LET it == GetIndexAndTag(lv, address) IN
    IF it.index \notin DOMAIN lv.sets
    THEN [level |-> lv, hit |-> FALSE, n |-> n]
    ELSE LET a == CacheSetAccess(lv.sets[it.index], it.tag, T, n) IN
         IF a.hit
         THEN [level |-> [lv EXCEPT !.sets[it.index] = a.set, !.hits = @ + 1],
               hit |-> TRUE, n |-> a.n]
         ELSE [level |-> [lv EXCEPT !.misses = @ + 1], hit |-> FALSE, n |-> a.n]

\* self.sets[index] = CacheSet(...) when the index is new
WithSet(lv, index) ==
    IF index \in DOMAIN lv.sets
    THEN lv.sets
    ELSE [k \in DOMAIN lv.sets \cup {index} |->
            IF k = index THEN CacheSetInit(lv.associativity, lv.policy)
            ELSE lv.sets[k]]

\* Variant: an insert counts as a hit of the level.
CacheLevelInsertCounts(lv, address, T, n, r) ==
    LET it == GetIndexAndTag(lv, address)
        sets1 == WithSet(lv, it.index)
        ins == CacheSetInsert(sets1[it.index], it.tag, T, n, r)
    IN [level |-> [lv EXCEPT !.sets = [sets1 EXCEPT ![it.index] = ins.set],
                             !.hits = @ + 1],
        n |-> ins.n]

CacheLevelInsert(lv, address, T, n, r) ==
    LET it == GetIndexAndTag(lv, address)
        sets1 == WithSet(lv, it.index)
        ins == CacheSetInsert(sets1[it.index], it.tag, T, n, r)
    IN [level |-> [lv EXCEPT !.sets = [sets1 EXCEPT ![it.index] = ins.set]],
        n |-> ins.n]

\* get_stats without the two rates (hits / total * 100 is a float)
GetStats(lv) == [hits |-> lv.hits, misses |-> lv.misses]

\* ------------------------------------------------------------------ MemoryHierarchy

MiB == 1024 * 1024
GiB == 1024 * 1024 * 1024
RamAssociativity == 8
DiskAssociativity == 1

MemoryHierarchyLevels(config) ==
    <<CacheLevelInit("L1 Cache", config.l1_size, config.block_size,
                     config.l1_assoc, config.l1_time, config.policy)>>
    \o (IF config.l2_enabled
        THEN <<CacheLevelInit("L2 Cache", config.l2_size, config.block_size,
                              config.l2_assoc, config.l2_time, config.policy)>>
        ELSE <<>>)
    \o (IF config.l3_enabled
        THEN <<CacheLevelInit("L3 Cache", config.l3_size, config.block_size,
                              config.l3_assoc, config.l3_time, config.policy)>>
        ELSE <<>>)
    \o <<CacheLevelInit("Main Memory (RAM)", config.ram_size * MiB, config.block_size,
                        RamAssociativity, config.ram_time, config.policy)>>

MemoryHierarchyDisk(config) ==
    CacheLevelInit("Secondary Memory (Disk)", config.disk_size * GiB, config.block_size,
                   DiskAssociativity, config.disk_time, "FIFO")

\* Variant: a level's access_time is added only when the level misses.
RECURSIVE ProbeLoopFreeHit(_, _, _, _, _, _)
ProbeLoopFreeHit(lvs, i, address, T, n, total_time) ==
    IF i > Len(lvs)
    THEN [levels |-> lvs, pos |-> 0, total_time |-> total_time, n |-> n]
    ELSE LET a == CacheLevelAccess(lvs[i], address, T, n)
             lvs1 == [lvs EXCEPT ![i] = a.level]
         IN IF a.hit
            THEN [levels |-> lvs1, pos |-> i, total_time |-> total_time, n |-> a.n]
            ELSE ProbeLoopFreeHit(lvs1, i + 1, address, T, a.n,
                                  total_time + lvs[i].access_time)

\* The probe loop of access_memory from level i on: the levels after the
\* probes, the position of the first hit (0: none), the time and the reads.
RECURSIVE ProbeLoop(_, _, _, _, _, _)
ProbeLoop(lvs, i, address, T, n, total_time) ==
    IF i > Len(lvs)
    THEN [levels |-> lvs, pos |-> 0, total_time |-> total_time, n |-> n]
    ELSE LET a == CacheLevelAccess(lvs[i], address, T, n)
             lvs1 == [lvs EXCEPT ![i] = a.level]
             t1 == total_time + lvs[i].access_time
         IN IF a.hit
            THEN [levels |-> lvs1, pos |-> i, total_time |-> t1, n |-> a.n]
            ELSE ProbeLoop(lvs1, i + 1, address, T, a.n, t1)

\* levels[j].insert(address) for j = from..upto, in order; rnd[j] is the draw
\* of random.choice at level j.
RECURSIVE InsertLoop(_, _, _, _, _, _, _)
InsertLoop(lvs, from, upto, address, T, n, rnd) ==
    IF from > upto
    THEN [levels |-> lvs, n |-> n]
    ELSE LET ins == CacheLevelInsert(lvs[from], address, T, n, rnd[from])
         IN InsertLoop([lvs EXCEPT ![from] = ins.level], from + 1, upto,
                       address, T, ins.n, rnd)

\* Variant: the level just before the hit is left out of the warm-up.
WarmUpToShort(i) == i - 2

\* Variant: a hit warms every level, as a fetch from the disk does.
WarmUpToAll(i) == Len(levels)

\* for j in range(i): self.levels[j].insert(address)
WarmUpTo(i) == i - 1

\* Variant: the disk counts the fetch but does not keep the block.
DiskFetchNoInsert(disk, address, T, n) ==
    [level |-> [disk EXCEPT !.hits = @ + 1], n |-> n]

\* Variant: the disk keeps the block but does not count the fetch.
DiskFetchNoCount(disk, address, T, n) ==
    CacheLevelInsert(disk, address, T, n, 0)

\* self.disk_level.hits += 1; self.disk_level.insert(address)
DiskFetch(disk, address, T, n) ==
    CacheLevelInsert([disk EXCEPT !.hits = @ + 1], address, T, n, 0)

\* access_memory(address): the hierarchy after the call and what it returns.
AccessMemoryResult(lvs, disk, address, T, rnd) ==
    LET p == ProbeLoop(lvs, 1, address, T, 0, 0) IN
    IF p.pos # 0
    THEN LET w == InsertLoop(p.levels, 1, WarmUpTo(p.pos), address, T, p.n, rnd)
         IN [levels |-> w.levels, disk_level |-> disk, n |-> w.n,
             total_time |-> p.total_time, name |-> lvs[p.pos].name, pos |-> p.pos]
    ELSE LET d == DiskFetch(disk, address, T, p.n)
             w == InsertLoop(p.levels, 1, Len(lvs), address, T, d.n, rnd)
         IN [levels |-> w.levels, disk_level |-> d.level, n |-> w.n,
             total_time |-> p.total_time + disk.access_time, name |-> "Disk",
             pos |-> 0]

\* ------------------------------------------------------------------ PerformanceAnalyzer

\* The last row of get_tabular_data: the disk's.  str(n) + " ns" is kept as
\* the pair of the number and its unit.
DiskRow(disk) ==
    <<disk.name, GetStats(disk).hits, "N/A", "100%", "0%", <<disk.access_time, " ns">> >>

\* ------------------------------------------------------------------ configurations

\* Configuration records handed to MemoryHierarchy: the access times are the
\* defaults of the settings panel, the sizes are small so that sets fill up.
Config(p, g, e, d) ==
    [policy |-> p, block_size |-> 64,
     l1_size |-> g[1], l1_assoc |-> g[2], l1_time |-> 1,
     l2_enabled |-> e[1], l2_size |-> 128, l2_assoc |-> 2, l2_time |-> 5,
     l3_enabled |-> e[2], l3_size |-> 256, l3_assoc |-> 0, l3_time |-> 15,
     ram_size |-> 1, ram_time |-> 100,
     disk_size |-> d, disk_time |-> 10000000]

\* L1 alone under every policy: direct-mapped with one set, fully associative
\* with two ways, direct-mapped with two sets; then L2 and L3 enabled, and a
\* disk of a single set.
Configs ==
    { Config(p, g, <<FALSE, FALSE>>, 1) :
        p \in Policies, g \in {<<64, 1>>, <<128, 0>>, <<128, 1>>} }
    \cup { Config("LRU", <<64, 1>>, <<TRUE, FALSE>>, 1),
           Config("FIFO", <<64, 1>>, <<TRUE, TRUE>>, 1),
           Config("LRU", <<128, 0>>, <<FALSE, FALSE>>, 0),
           Config("MRU", <<64, 1>>, <<TRUE, FALSE>>, 0) }

\* ------------------------------------------------------------------ the hierarchy, driven by access_memory

IdleSet == CacheSetInit(1, "LRU")
NoOp == [name |-> "none", tag |-> 0, hit |-> FALSE]

\* No AccessPatternGenerator constructed, no MemoryHierarchy asked for, no second run.
NoGenerator ==
    [max_address |-> 0, pattern |-> "none", num_requests |-> 0, i |-> 0,
     current |-> 0, addresses |-> <<>>, status |-> "none"]
NoHierarchy == [status |-> "none"]
NoRef == [slower |-> "none"]

Init ==
    /\ \E config \in Configs :
          /\ levels = MemoryHierarchyLevels(config)
          /\ disk_level = MemoryHierarchyDisk(config)
    /\ clock = 0
    /\ trace = <<>>
    /\ probes = [j \in 1..Len(levels) |-> 0]
    /\ cset = IdleSet
    /\ op = NoOp
    /\ nops = 0
    /\ prev = <<>>
    /\ recency = <<>>
    /\ arrival = <<>>
    /\ generator = NoGenerator
    /\ hierarchy = NoHierarchy
    /\ ref = NoRef

\* The draws of random.choice of one call, one per level.
RandomDraws(lvs) ==
    IF \E j \in 1..Len(lvs) : lvs[j].policy = "Random"
    THEN [1..Len(lvs) -> 0..(MaxCapacity - 1)]
    ELSE {[j \in 1..Len(lvs) |-> 0]}

\* Level j was probed by a call that resolved at position pos (0: the disk).
Probed(j, pos) == pos = 0 \/ j <= pos

HasSet(lv, address) == GetIndexAndTag(lv, address).index \in DOMAIN lv.sets

\* The number of time.time() reads access_memory(address) makes: which
\* blocks are resident, and so the path taken, does not depend on the values read.
Reads(lvs, disk, address) ==
    AccessMemoryResult(lvs, disk, address, [r \in 1..(2 * (Len(lvs) + 1)) |-> 0],
                       [j \in 1..Len(lvs) |-> 0]).n

AccessMemory ==
    /\ Len(trace) < MaxCalls
    /\ \E address \in Addresses :
       \E T \in Timestamps(clock, Reads(levels, disk_level, address)) :
       \E rnd \in RandomDraws(levels) :
       \E res \in {AccessMemoryResult(levels, disk_level, address, T, rnd)} :
          /\ levels' = res.levels
          /\ disk_level' = res.disk_level
          /\ clock' = ClockAfter(clock, T, res.n)
          /\ trace' = Append(trace, [address |-> address,
                                     total_time |-> res.total_time,
                                     name |-> res.name,
                                     pos |-> res.pos])
          /\ probes' = [j \in 1..Len(levels) |->
                          IF Probed(j, res.pos) /\ HasSet(levels[j], address)
                          THEN probes[j] + 1 ELSE probes[j]]
    /\ UNCHANGED <<cset, op, nops, prev, recency, arrival, generator, hierarchy, ref>>

Next == AccessMemory

Spec == Init /\ [][Next]_vars

\* ------------------------------------------------------------------ one CacheSet, driven by access and insert

Tags == 0..MaxTag

TagsOf(blocks) == {blocks[i].tag : i \in 1..Len(blocks)}

\* The order seq with x moved to its end.
MovedLast(seq, x) == Append(SelectSeq(seq, LAMBDA y : y # x), x)

SetInit ==
    /\ \E capacity \in 1..MaxCapacity : \E policy \in Policies :
          cset = CacheSetInit(capacity, policy)
    /\ clock = 0
    /\ op = NoOp
    /\ nops = 0
    /\ prev = <<>>
    /\ recency = <<>>
    /\ arrival = <<>>
    /\ levels = <<>>
    /\ disk_level = MemoryHierarchyDisk(CHOOSE config \in Configs : TRUE)
    /\ trace = <<>>
    /\ probes = <<>>
    /\ generator = NoGenerator
    /\ hierarchy = NoHierarchy
    /\ ref = NoRef

SetAccess ==
    /\ nops < MaxOps
    /\ \E tag \in Tags : \E T \in Timestamps(clock, 1) :
       \E res \in {CacheSetAccess(cset, tag, T, 0)} :
          /\ cset' = res.set
          /\ clock' = ClockAfter(clock, T, res.n)
          /\ op' = [name |-> "access", tag |-> tag, hit |-> res.hit]
          /\ nops' = nops + 1
          /\ prev' = cset.blocks
          /\ recency' = IF tag \in TagsOf(cset.blocks)
                        THEN MovedLast(recency, tag) ELSE recency
          /\ arrival' = arrival
    /\ UNCHANGED <<levels, disk_level, trace, probes, generator, hierarchy, ref>>

SetInsert ==
    /\ nops < MaxOps
    /\ \E tag \in Tags : \E T \in Timestamps(clock, 2) :
       \E r \in (IF cset.policy = "Random" THEN 0..(MaxCapacity - 1) ELSE {0}) :
       \E res \in {CacheSetInsert(cset, tag, T, 0, r)} :
          /\ cset' = res.set
          /\ clock' = ClockAfter(clock, T, res.n)
          /\ op' = [name |-> "insert", tag |-> tag, hit |-> FALSE]
          /\ nops' = nops + 1
          /\ prev' = cset.blocks
          /\ recency' = MovedLast(recency, tag)
          /\ arrival' = IF tag \in TagsOf(cset.blocks)
                        THEN arrival ELSE MovedLast(arrival, tag)
    /\ UNCHANGED <<levels, disk_level, trace, probes, generator, hierarchy, ref>>

SetNext == SetAccess \/ SetInsert

SetSpec == SetInit /\ [][SetNext]_vars

\* ------------------------------------------------------------------ AccessPatternGenerator, driven by generate_*

\* Python's a % m for m # 0: the result takes the sign of m.
PyMod(a, m) == IF m > 0 THEN a % m ELSE 0 - ((0 - a) % (0 - m))

\* The values handed to AccessPatternGenerator as max_address.
MaxAddresses == {0 - 8, 0, 8}

\* The request counts: the small ones and the one of ten chunks of one.
Requests == (0..MaxRequests) \cup {Chunks}

\* random.randint(0, m) for m >= 0: both ends are possible.
RandInts(m) == {0, m}

\* int(random.gauss(0, 100)): any integer; a negative, zero and a positive one.
Offsets == {0 - 12, 0, 3}

GenInit ==
    /\ generator = NoGenerator
    /\ hierarchy = NoHierarchy
    /\ ref = NoRef
    /\ cset = IdleSet
    /\ clock = 0
    /\ op = NoOp
    /\ nops = 0
    /\ prev = <<>>
    /\ recency = <<>>
    /\ arrival = <<>>
    /\ levels = <<>>
    /\ disk_level = MemoryHierarchyDisk(CHOOSE config \in Configs : TRUE)
    /\ trace = <<>>
    /\ probes = <<>>

\* The variables the generator leaves alone.
NotGenerator ==
    <<levels, disk_level, clock, trace, probes, cset, op, nops, prev, recency,
      arrival, hierarchy, ref>>

\* AccessPatternGenerator(max_address): the value is stored as it is.
NewGenerator ==
    /\ generator.status # "running"
    /\ \E max_address \in MaxAddresses :
          generator' = [NoGenerator EXCEPT !.max_address = max_address,
                                           !.status = "idle"]
    /\ UNCHANGED NotGenerator

\* The frame of a generate_* call before its loop.
Call(pattern, num_requests, current) ==
    [generator EXCEPT !.pattern = pattern, !.num_requests = num_requests,
                      !.i = 0, !.current = current, !.addresses = <<>>,
                      !.status = "running"]

Raise(fault) == [generator EXCEPT !.status = fault]

\* generate_sequential(num_requests) up to its loop.
GenerateSequential ==
    /\ generator.status \in {"idle", "returned", "ZeroDivisionError", "ValueError"}
    /\ \E num_requests \in Requests :
          generator' = Call("Sequential", num_requests, 0)
    /\ UNCHANGED NotGenerator

\* One iteration of the loop of generate_sequential.
SequentialStep ==
    /\ generator.status = "running"
    /\ generator.pattern = "Sequential"
    /\ generator.i < generator.num_requests
    /\ generator' =
          IF generator.max_address = 0
          THEN Raise("ZeroDivisionError")
          ELSE [generator EXCEPT
                   !.addresses = Append(@, generator.current),
                   !.current = PyMod(generator.current + Stride, generator.max_address),
                   !.i = @ + 1]
    /\ UNCHANGED NotGenerator

\* generate_random(num_requests) up to its loop.
GenerateRandom ==
    /\ generator.status \in {"idle", "returned", "ZeroDivisionError", "ValueError"}
    /\ \E num_requests \in Requests :
          generator' = Call("Random", num_requests, 0)
    /\ UNCHANGED NotGenerator

\* One iteration of the loop of generate_random.
RandomStep ==
    /\ generator.status = "running"
    /\ generator.pattern = "Random"
    /\ generator.i < generator.num_requests
    /\ IF generator.max_address < 0
       THEN generator' = Raise("ValueError")
       ELSE \E a \in RandInts(generator.max_address) :
               generator' = [generator EXCEPT !.addresses = Append(@, a),
                                              !.i = @ + 1]
    /\ UNCHANGED NotGenerator

\* generate_locality(num_requests) up to its loop: the first hotspot is drawn.
GenerateLocality ==
    /\ generator.status \in {"idle", "returned", "ZeroDivisionError", "ValueError"}
    /\ \E num_requests \in Requests :
          IF generator.max_address < 0
          THEN generator' = [Call("Locality", num_requests, 0)
                                EXCEPT !.status = "ValueError"]
          ELSE \E h \in RandInts(generator.max_address) :
                  generator' = Call("Locality", num_requests, h)
    /\ UNCHANGED NotGenerator

\* The address generate_locality derives from a hotspot and an offset.
LocalityAddress(hotspot, offset, max_address) ==
    LET addr == PyMod(Abs(hotspot + offset), max_address)
    IN addr - PyMod(addr, 4)

\* One iteration of the loop of generate_locality.
LocalityStep ==
    /\ generator.status = "running"
    /\ generator.pattern = "Locality"
    /\ generator.i < generator.num_requests
    /\ IF generator.num_requests \div Chunks = 0 \/ generator.max_address = 0
       THEN generator' = Raise("ZeroDivisionError")
       ELSE \E h \in (IF generator.i % (generator.num_requests \div Chunks) = 0
                      THEN RandInts(generator.max_address)
                      ELSE {generator.current}) :
            \E offset \in Offsets :
               generator' =
                  [generator EXCEPT
                      !.current = h,
                      !.addresses = Append(@, LocalityAddress(h, offset,
                                                              generator.max_address)),
                      !.i = @ + 1]
    /\ UNCHANGED NotGenerator

\* The loop of a generate_* call is over: addresses is returned.
Return ==
    /\ generator.status = "running"
    /\ generator.i >= generator.num_requests
    /\ generator' = [generator EXCEPT !.status = "returned"]
    /\ UNCHANGED NotGenerator

GenNext ==
    \/ NewGenerator
    \/ GenerateSequential
    \/ SequentialStep
    \/ GenerateRandom
    \/ RandomStep
    \/ GenerateLocality
    \/ LocalityStep
    \/ Return

GenSpec == GenInit /\ [][GenNext]_vars

\* ------------------------------------------------------------------ MemoryHierarchy(config), for sound and unsound configurations

\* Configuration records with fields in and out of range.
BuildConfigs ==
    { [Config(p, <<l1_size, l1_assoc>>, <<l2_enabled, FALSE>>, 1)
          EXCEPT !.block_size = block_size, !.l2_size = l2_size] :
        p \in {"LRU", "FIFO"},
        block_size \in {0 - 64, 0, 64},
        l1_size \in {0 - 128, 0, 128},
        l1_assoc \in {0 - 1, 0, 2},
        l2_enabled \in BOOLEAN,
        l2_size \in {0, 128} }

\* The (size_bytes, associativity) of the CacheLevels MemoryHierarchy.__init__
\* constructs, in the order it constructs them.
LevelArgs(config) ==
    <<(<<config.l1_size, config.l1_assoc>>)>>
    \o (IF config.l2_enabled THEN <<(<<config.l2_size, config.l2_assoc>>)>> ELSE <<>>)
    \o (IF config.l3_enabled THEN <<(<<config.l3_size, config.l3_assoc>>)>> ELSE <<>>)
    \o <<(<<config.ram_size * MiB, RamAssociativity>>)>>
    \o <<(<<config.disk_size * GiB, DiskAssociativity>>)>>

\* CacheLevel.__init__ divides by block_size, or by block_size * associativity.
CacheLevelFaults(block_size, associativity) ==
    IF associativity = 0 THEN block_size = 0 ELSE block_size * associativity = 0

\* The constructions that raise ZeroDivisionError.
Faulting(config) ==
    {k \in 1..Len(LevelArgs(config)) :
        CacheLevelFaults(config.block_size, LevelArgs(config)[k][2])}

\* MemoryHierarchy(config): the hierarchy, or the fault of the first
\* construction that divides by zero and the number of levels built before it.
MemoryHierarchyInit(config) ==
    IF Faulting(config) = {}
    THEN [status |-> "built", config |-> config,
          constructed |-> Len(LevelArgs(config)),
          levels |-> MemoryHierarchyLevels(config),
          disk_level |-> MemoryHierarchyDisk(config)]
    ELSE [status |-> "ZeroDivisionError", config |-> config,
          constructed |-> (CHOOSE k \in Faulting(config) :
                              \A j \in Faulting(config) : k <= j) - 1]

BuildInit ==
    /\ hierarchy = NoHierarchy
    /\ generator = NoGenerator
    /\ ref = NoRef
    /\ cset = IdleSet
    /\ clock = 0
    /\ op = NoOp
    /\ nops = 0
    /\ prev = <<>>
    /\ recency = <<>>
    /\ arrival = <<>>
    /\ levels = <<>>
    /\ disk_level = MemoryHierarchyDisk(CHOOSE config \in Configs : TRUE)
    /\ trace = <<>>
    /\ probes = <<>>

Build ==
    /\ \E config \in BuildConfigs : hierarchy' = MemoryHierarchyInit(config)
    /\ UNCHANGED <<levels, disk_level, clock, trace, probes, cset, op, nops, prev,
                   recency, arrival, generator, ref>>

BuildNext == Build

BuildSpec == BuildInit /\ [][BuildNext]_vars

\* ------------------------------------------------------------------ two runs over the same addresses

\* K readings of a clock that advances between any two reads.
Advancing(c, K) == [r \in 1..K |-> c + r]

\* Two-way fully associative L1 over RAM, under the policies that draw nothing.
PairConfigs ==
    { Config(p, <<128, 0>>, <<FALSE, FALSE>>, 1) : p \in Policies \ {"Random"} }

\* config with one access time raised by one, or as it is.
Slower(config, field) ==
    CASE field = "l1_time" -> [config EXCEPT !.l1_time = @ + 1]
      [] field = "ram_time" -> [config EXCEPT !.ram_time = @ + 1]
      [] field = "disk_time" -> [config EXCEPT !.disk_time = @ + 1]
      [] OTHER -> config

PairInit ==
    /\ \E config \in PairConfigs :
       \E field \in {"none", "l1_time", "ram_time", "disk_time"} :
          /\ levels = MemoryHierarchyLevels(config)
          /\ disk_level = MemoryHierarchyDisk(config)
          /\ ref = [slower |-> field,
                    levels |-> MemoryHierarchyLevels(Slower(config, field)),
                    disk_level |-> MemoryHierarchyDisk(Slower(config, field)),
                    clock |-> 0,
                    trace |-> <<>>]
    /\ clock = 0
    /\ trace = <<>>
    /\ probes = [j \in 1..Len(levels) |-> 0]
    /\ cset = IdleSet
    /\ op = NoOp
    /\ nops = 0
    /\ prev = <<>>
    /\ recency = <<>>
    /\ arrival = <<>>
    /\ generator = NoGenerator
    /\ hierarchy = NoHierarchy

\* access_memory(address) in both runs: the first reads a clock that may
\* stand still between reads, the second one that advances at every read.
PairAccess ==
    /\ Len(trace) < MaxPairCalls
    /\ \E address \in Addresses :
       \E T \in Timestamps(clock, Reads(levels, disk_level, address)) :
       \E res \in {AccessMemoryResult(levels, disk_level, address, T,
                                      [j \in 1..Len(levels) |-> 0])} :
       \E res2 \in {AccessMemoryResult(ref.levels, ref.disk_level, address,
                       Advancing(ref.clock, Reads(ref.levels, ref.disk_level, address)),
                       [j \in 1..Len(ref.levels) |-> 0])} :
          /\ levels' = res.levels
          /\ disk_level' = res.disk_level
          /\ clock' = ClockAfter(clock, T, res.n)
          /\ trace' = Append(trace, [address |-> address,
                                     total_time |-> res.total_time,
                                     name |-> res.name,
                                     pos |-> res.pos])
          /\ probes' = [j \in 1..Len(levels) |->
                          IF Probed(j, res.pos) /\ HasSet(levels[j], address)
                          THEN probes[j] + 1 ELSE probes[j]]
          /\ ref' = [ref EXCEPT
                        !.levels = res2.levels,
                        !.disk_level = res2.disk_level,
                        !.clock = @ + res2.n,
                        !.trace = Append(@, [address |-> address,
                                             total_time |-> res2.total_time,
                                             name |-> res2.name,
                                             pos |-> res2.pos])]
    /\ UNCHANGED <<cset, op, nops, prev, recency, arrival, generator, hierarchy>>

PairNext == PairAccess

PairSpec == PairInit /\ [][PairNext]_vars

\* ------------------------------------------------------------------ properties of one CacheSet (SetSpec)

\* The tags the last call on cset evicted.
EvictedTags == TagsOf(prev) \ TagsOf(cset.blocks)

\* The last call was an insert of a tag that was not resident into a full set.
InsertEvicted == op.name = "insert" /\ EvictedTags # {}

Pos(seq, x) == CHOOSE i \in 1..Len(seq) : seq[i] = x

\* x comes before every other tag of among in the order seq.
FirstAmong(seq, x, among) == \A u \in among \ {x} : Pos(seq, x) < Pos(seq, u)

\* C1: a CacheSet of capacity >= 1 never holds more blocks than its capacity,
\* after any sequence of access and insert calls under any of the five policies.
C1_SizeWithinCapacity == Len(cset.blocks) <= cset.capacity

\* An insert of a new tag into a full set of two ways, which evicted.
C1_Witness ==
    /\ InsertEvicted
    /\ cset.capacity = 2
    /\ Len(prev) = 2
    /\ Len(cset.blocks) = 2

\* C2: no CacheSet holds two blocks of the same tag, after any sequence of
\* access and insert calls, inserts of a resident tag and evicting inserts included.
C2_TagsUnique ==
    \A i, j \in 1..Len(cset.blocks) :
        cset.blocks[i].tag = cset.blocks[j].tag => i = j

\* An insert of a tag that was already resident in a full set.
C2_Witness ==
    /\ op.name = "insert"
    /\ op.tag \in TagsOf(prev)
    /\ Len(prev) = cset.capacity
    /\ TagsOf(cset.blocks) = TagsOf(prev)

\* C8: under LRU an insert of a non-resident tag into a full set evicts exactly
\* one block, the one whose most recent access or insert is the oldest in the
\* order of the calls; with capacity 1, the inserted tag is the only one resident.
C8_LruEvictsLeastRecentlyTouched ==
    (cset.policy = "LRU" /\ op.name = "insert" /\ op.tag \notin TagsOf(prev)
        /\ Len(prev) >= cset.capacity)
    => /\ Cardinality(EvictedTags) = 1
       /\ \A v \in EvictedTags : FirstAmong(recency, v, TagsOf(prev))
       /\ cset.capacity = 1 => TagsOf(cset.blocks) = {op.tag}

\* C9: under FIFO the block evicted is the resident block admitted earliest,
\* whatever access and insert calls have touched it since.
C9_FifoEvictsEarliestAdmitted ==
    (cset.policy = "FIFO" /\ op.name = "insert" /\ op.tag \notin TagsOf(prev)
        /\ Len(prev) >= cset.capacity)
    => /\ Cardinality(EvictedTags) = 1
       /\ \A v \in EvictedTags : FirstAmong(arrival, v, TagsOf(prev))
       /\ \A v \in EvictedTags : v = prev[1].tag

\* A FIFO set of two ways evicted its first block although that block had been
\* touched again, later than the other block was.
C9_Witness ==
    /\ cset.policy = "FIFO"
    /\ InsertEvicted
    /\ Len(prev) = 2
    /\ prev[1].access_count >= 2
    /\ prev[1].last_access > prev[2].last_access
    /\ prev[1].tag \in EvictedTags
    /\ TagsOf(cset.blocks) = {prev[2].tag, op.tag}

\* ------------------------------------------------------------------ properties of the hierarchy (Spec)

\* The last access_memory call.
Last == trace[Len(trace)]

\* level.access(address) would return True.
ProbeHits(lv, address) == CacheLevelAccess(lv, address, <<clock>>, 0).hit

\* The tags resident in each CacheSet of a level.
ResidentTags(lv) == [k \in DOMAIN lv.sets |-> TagsOf(lv.sets[k].blocks)]

\* The number of calls the disk resolved.
DiskCalls == Cardinality({k \in 1..Len(trace) : trace[k].name = "Disk"})

\* C3: when access_memory(addr) is resolved by a hit at a level after the
\* first, a probe of every faster level for addr hits right afterwards.
C3_InclusionAfterHit ==
    (trace # <<>> /\ Last.pos > 1)
    => \A j \in 1..(Last.pos - 1) : ProbeHits(levels[j], Last.address)

\* A call resolved by a hit below L1, in a hierarchy of three levels or more.
C3_Witness ==
    /\ trace # <<>>
    /\ Last.pos > 1
    /\ Len(levels) >= 3

\* C4: when access_memory(addr) finds no hit and resolves via the disk, a probe
\* of every level and of the disk for addr hits right afterwards.
C4_FullWarmUp ==
    (trace # <<>> /\ Last.name = "Disk")
    => /\ \A j \in 1..Len(levels) : ProbeHits(levels[j], Last.address)
       /\ ProbeHits(disk_level, Last.address)

\* A fetch from the disk into a hierarchy that already held other blocks, the
\* disk having a single set.
C4_Witness ==
    /\ Len(trace) >= 2
    /\ Last.name = "Disk"
    /\ trace[1].address # Last.address
    /\ disk_level.num_sets = 1

\* C5: when access_memory(addr) is resolved by a hit at level i, the tags
\* resident at level i stay the same and every slower level and the disk are
\* left as they were: blocks, sets and counters.
C5_PartialWarmUpFrame ==
    [][ (trace' # trace /\ trace'[Len(trace')].pos # 0)
        => LET i == trace'[Len(trace')].pos IN
           /\ ResidentTags(levels'[i]) = ResidentTags(levels[i])
           /\ \A j \in (i + 1)..Len(levels) : levels'[j] = levels[j]
           /\ disk_level' = disk_level ]_vars

\* A hit at L1 while the slower levels and the disk hold blocks.
C5_Witness ==
    /\ trace # <<>>
    /\ Last.pos = 1
    /\ Len(levels) >= 2
    /\ \A j \in 2..Len(levels) : levels[j].sets # <<>>
    /\ disk_level.sets # <<>>

\* C6: at every level hits + misses is the number of probes that found a
\* CacheSet at the address's index; a probe of an index without a CacheSet
\* returns a miss and changes nothing, neither counter and no set.
C6_CounterConservation ==
    /\ \A j \in 1..Len(levels) : levels[j].hits + levels[j].misses = probes[j]
    /\ \A j \in 1..Len(levels) : \A a \in Addresses :
          ~HasSet(levels[j], a)
          => CacheLevelAccess(levels[j], a, <<clock>>, 0)
                = [level |-> levels[j], hit |-> FALSE, n |-> 0]

\* L1 has been probed more often than it counted, and has counted a hit and a miss.
C6_Witness ==
    /\ Len(trace) > probes[1]
    /\ levels[1].hits >= 1
    /\ levels[1].misses >= 1

\* C7: the disk's hits counter is the number of calls resolved via the disk (1
\* after a single call), its misses counter stays 0, and its row of the table
\* reports misses as N/A with a 100% hit rate and a 0% miss rate.
C7_DiskAccounting ==
    /\ disk_level.hits = DiskCalls
    /\ Len(trace) = 1 => disk_level.hits = 1
    /\ disk_level.misses = 0
    /\ DiskRow(disk_level)[1] = "Secondary Memory (Disk)"
    /\ DiskRow(disk_level)[2] = DiskCalls
    /\ DiskRow(disk_level)[3] = "N/A"
    /\ DiskRow(disk_level)[4] = "100%"
    /\ DiskRow(disk_level)[5] = "0%"

\* Calls resolved by the disk and calls resolved by a level have both happened.
C7_Witness ==
    /\ disk_level.hits >= 2
    /\ Len(trace) > disk_level.hits

\* The calls so far alternate between the addresses a and b, a first.
Alternates(a, b) ==
    \A k \in 1..Len(trace) : trace[k].address = IF k % 2 = 1 THEN a ELSE b

\* A level of one set and one way.
DirectMappedOneSet(lv) == lv.num_sets = 1 /\ lv.associativity = 1

\* C10: at a level of one set and one way (block_size = size = 64), calls that
\* alternate between two addresses of different tags never hit: every probe
\* after the first is a counted miss and hits stays 0, under every policy.
C10_Thrashing ==
    \A j \in 1..Len(levels) : \A a, b \in Addresses :
        (/\ DirectMappedOneSet(levels[j])
         /\ GetIndexAndTag(levels[j], a).tag # GetIndexAndTag(levels[j], b).tag
         /\ Alternates(a, b))
        => /\ levels[j].hits = 0
           /\ j = 1 /\ trace # <<>> => levels[j].misses = Len(trace) - 1

\* Three alternating calls on 0 and 64 with L1 of 64 bytes and one way.
C10_Witness ==
    /\ Len(trace) >= 3
    /\ Alternates(0, 64)
    /\ DirectMappedOneSet(levels[1])
    /\ levels[1].size = 64 /\ levels[1].block_size = 64
    /\ levels[1].misses = 2

\* ------------------------------------------------------------------ elapsed time, the disk, decomposition (Spec)

\* The access times of the first k levels, added up.
RECURSIVE SumTimes(_, _)
SumTimes(lvs, k) == IF k = 0 THEN 0 ELSE SumTimes(lvs, k - 1) + lvs[k].access_time

\* C16: access_memory returns the sum of the access times of levels 0..i when
\* the first hit is at level i, and the sum over all levels plus the disk's
\* access time when no level hits; slower levels add nothing.
C16_ElapsedTime ==
    \A k \in 1..Len(trace) :
        trace[k].total_time =
            IF trace[k].pos # 0
            THEN SumTimes(levels, trace[k].pos)
            ELSE SumTimes(levels, Len(levels)) + disk_level.access_time

\* A run of a hierarchy of four levels with a call resolved by the disk and a
\* later one resolved by a level below L1.
C16_Witness ==
    /\ Len(levels) = 4
    /\ \E k \in 1..Len(trace) : trace[k].pos = 0
    /\ trace # <<>>
    /\ Last.pos > 1
    /\ Last.pos < Len(levels)

\* C17: the disk never evicts: every address a call fetched from the disk is
\* still resident there (a probe of the disk hits) after any later calls.
C17_DiskNeverEvicts ==
    \A k \in 1..Len(trace) :
        trace[k].name = "Disk" => ProbeHits(disk_level, trace[k].address)

\* C20: at every level and for every address >= 0, get_index_and_tag returns
\* an index in 0..num_sets-1 and a tag with tag * num_sets + index =
\* address // block_size; two addresses get the same pair exactly when they
\* lie in the same block.
C20_Decomposition ==
    \A lv \in {levels[j] : j \in 1..Len(levels)} \cup {disk_level} :
        /\ \A a \in 0..MaxAddress :
              LET it == GetIndexAndTag(lv, a) IN
              /\ 0 <= it.index /\ it.index < lv.num_sets
              /\ it.tag * lv.num_sets + it.index = a \div lv.block_size
        /\ \A k \in 1..Len(trace) : \A b \in 0..MaxAddress :
              (GetIndexAndTag(lv, trace[k].address) = GetIndexAndTag(lv, b))
                 <=> (trace[k].address \div lv.block_size = b \div lv.block_size)

\* Two calls on different blocks that share L1's only index and differ in tag,
\* the later one resident in L1 and the earlier one no longer.
C20_Witness ==
    /\ Len(trace) >= 2
    /\ levels[1].num_sets = 1
    /\ trace[1].address # Last.address
    /\ GetIndexAndTag(levels[1], trace[1].address).index
          = GetIndexAndTag(levels[1], Last.address).index
    /\ GetIndexAndTag(levels[1], trace[1].address).tag
          # GetIndexAndTag(levels[1], Last.address).tag
    /\ ProbeHits(levels[1], Last.address)
    /\ ~ProbeHits(levels[1], trace[1].address)

\* ------------------------------------------------------------------ tie-break and re-insertion (SetSpec)

\* The key the policy orders blocks by, smallest first.
PolicyKey(policy, b) ==
    CASE policy = "LRU" -> b.last_access
      [] policy = "MRU" -> 0 - b.last_access
      [] policy = "LFU" -> b.access_count
      [] policy = "FIFO" -> b.insertion_time

\* The positions in blocks of the policy's extremal key.
Extremal(policy, blocks) ==
    {i \in 1..Len(blocks) :
        \A j \in 1..Len(blocks) :
            PolicyKey(policy, blocks[i]) <= PolicyKey(policy, blocks[j])}

\* The last call was an insert of a non-resident tag into a full set under
\* one of the four ordered policies.
OrderedEviction ==
    /\ cset.policy \in {"LRU", "MRU", "LFU", "FIFO"}
    /\ op.name = "insert"
    /\ op.tag \notin TagsOf(prev)
    /\ Len(prev) >= cset.capacity

\* C18: under LRU, MRU, LFU and FIFO the victim is the first block in list
\* order among those of the extremal key, and exactly one block is evicted.
C18_TieBreak ==
    OrderedEviction
    => \E i \in Extremal(cset.policy, prev) :
          /\ \A j \in Extremal(cset.policy, prev) : i <= j
          /\ Len(cset.blocks) = Len(prev)
          /\ \A k \in 1..(Len(prev) - 1) :
                cset.blocks[k] = IF k < i THEN prev[k] ELSE prev[k + 1]
          /\ cset.blocks[Len(prev)].tag = op.tag

\* An eviction from a set of two blocks that tie on the policy's key.
C18_Witness ==
    /\ OrderedEviction
    /\ Len(prev) = 2
    /\ Extremal(cset.policy, prev) = {1, 2}
    /\ EvictedTags = {prev[1].tag}

\* C19: insert of a resident tag acts as access does: access_count + 1,
\* last_access refreshed, insertion_time kept, nothing evicted, every other
\* block as it was; access of a non-resident tag returns false and changes nothing.
C19_ResidentInsertIsTouch ==
    /\ (op.name \in {"insert", "access"} /\ op.tag \in TagsOf(prev))
       => /\ Len(cset.blocks) = Len(prev)
          /\ \A i \in 1..Len(prev) :
                cset.blocks[i] =
                    IF prev[i].tag = op.tag
                    THEN [prev[i] EXCEPT !.last_access = clock,
                                         !.access_count = @ + 1]
                    ELSE prev[i]
          /\ op.name = "access" => op.hit
    /\ (op.name = "access" /\ op.tag \notin TagsOf(prev))
       => ~op.hit /\ cset.blocks = prev

\* An insert of a resident tag into a full set of two ways, after the clock
\* has moved on since that block was admitted.
C19_Witness ==
    /\ op.name = "insert"
    /\ Len(prev) = 2
    /\ cset.capacity = 2
    /\ \E i \in 1..2 : prev[i].tag = op.tag /\ cset.blocks[i].insertion_time < clock

\* ------------------------------------------------------------------ the generators (GenSpec)

\* C13: generate_locality(n) raises no division fault for 1 <= n < 10 (given
\* a positive address space) and returns exactly n addresses.
C13_LocalitySmallCounts ==
    (/\ generator.pattern = "Locality"
     /\ generator.max_address > 0
     /\ 1 <= generator.num_requests
     /\ generator.num_requests < Chunks)
    => /\ generator.status # "ZeroDivisionError"
       /\ generator.status = "returned"
             => Len(generator.addresses) = generator.num_requests

\* C14: a generator with max_address <= 0 is never used to produce
\* addresses: no generate_* call on it returns, and none ends in a fault of
\* another kind (a division by zero, a ValueError of the random source).
C14_NonPositiveRejected ==
    generator.max_address <= 0
    => generator.status \notin {"returned", "ZeroDivisionError", "ValueError"}

\* ------------------------------------------------------------------ construction (BuildSpec)

\* A field of the configuration is out of range: block_size <= 0, or a
\* non-positive size or a negative associativity of an enabled level.
OutOfRange(config) ==
    \/ config.block_size <= 0
    \/ config.l1_size <= 0
    \/ config.l1_assoc < 0
    \/ config.l2_enabled /\ (config.l2_size <= 0 \/ config.l2_assoc < 0)
    \/ config.l3_enabled /\ (config.l3_size <= 0 \/ config.l3_assoc < 0)
    \/ config.ram_size <= 0
    \/ config.disk_size <= 0

\* C15: MemoryHierarchy(config) with an out-of-range field fails with a
\* ConfigurationError before any CacheLevel is constructed.
C15_OutOfRangeRejected ==
    (hierarchy.status # "none" /\ OutOfRange(hierarchy.config))
    => hierarchy.status = "ConfigurationError" /\ hierarchy.constructed = 0

\* ------------------------------------------------------------------ two runs compared (PairSpec)

\* t_mem of run_simulation: the elapsed times of a run, added up.
RECURSIVE TotalTime(_)
TotalTime(tr) == IF tr = <<>> THEN 0 ELSE tr[1].total_time + TotalTime(Tail(tr))

\* C11: over the same addresses and under a non-Random policy, the run of
\* the configuration with one access_time raised has a total elapsed time,
\* and so an AMAT, no smaller than the run of the original configuration.
C11_AmatMonotone ==
    ref.slower \in {"l1_time", "ram_time", "disk_time"}
    => TotalTime(ref.trace) >= TotalTime(trace)

\* C12: two runs of one configuration over the same addresses under a
\* non-Random policy give the same sequence of results and the same hits and
\* misses at every level, whatever the clock returns.
C12_Deterministic ==
    ref.slower = "none"
    => /\ ref.trace = trace
       /\ \A j \in 1..Len(levels) :
             /\ levels[j].hits = ref.levels[j].hits
             /\ levels[j].misses = ref.levels[j].misses
       /\ disk_level.hits = ref.disk_level.hits

\* ------------------------------------------------------------------ hits over the whole hierarchy (Spec)

\* The number of calls resolved at position pos (0: the disk).
ResolvedAt(pos) == Cardinality({k \in 1..Len(trace) : trace[k].pos = pos})

\* The hits counters of the first k levels, added up.
RECURSIVE SumHits(_, _)
SumHits(lvs, k) == IF k = 0 THEN 0 ELSE SumHits(lvs, k - 1) + lvs[k].hits

\* C21: every access_memory call increments exactly one hits counter, that
\* of the first level that hits or else the disk's: each counter is the
\* number of calls resolved there, and after N calls the hits of all levels
\* and the disk add up to N.
C21_OneHitPerCall ==
    /\ \A j \in 1..Len(levels) : levels[j].hits = ResolvedAt(j)
    /\ disk_level.hits = ResolvedAt(0)
    /\ SumHits(levels, Len(levels)) + disk_level.hits = Len(trace)

\* Two calls resolved by the disk and one by a level below L1 that is not
\* the last, so that three counters are in play and two of them are not 0.
C21_Witness ==
    /\ ResolvedAt(0) >= 2
    /\ Len(levels) >= 3
    /\ \E j \in 2..(Len(levels) - 1) : levels[j].hits >= 1
    /\ levels[1].hits = 0

====
